---- MODULE Spec2Model ----
(***************************************************************************)
(* Model of UserManage/UserRepository.py: the validated User entity, the   *)
(* UserRepoMapper, and the Repository / UserRepository operations over one *)
(* SQLite table.                                                           *)
(*                                                                         *)
(* Text values that the code inspects character by character (email,      *)
(* last_login_ip) are sequences of one-character strings.                  *)
(***************************************************************************)
EXTENDS Integers, Sequences, FiniteSets, TLC

VARIABLES
    table,      \* committed rows of the table, in storage scan order
    callers,    \* the callers that use the repository
    st,         \* per caller: the running repository call and its history
    user,       \* the User object under test (NoUser before construction)
    prevUser,   \* the User object before the last constructor/setter call
    last,       \* the last constructor/setter call and its outcome
    mpc,        \* position of the mapper exercise
    muser,      \* the User handed to the mapper
    record,     \* the record produced by / handed to the mapper
    mapped      \* the outcome of map_from_repo(record)

vars == <<table, callers, st, user, prevUser, last, mpc, muser, record, mapped>>
repoVars == <<table, callers, st>>
userVars == <<user, prevUser, last>>
mapperVars == <<mpc, muser, record, mapped>>

----------------------------------------------------------------------------
(* Bounds of the model *)

NumUuids == 2
MaxTypeInput == 4
\* the ids that two concurrent callers work on
NumRaceUuids == 1

----------------------------------------------------------------------------
(* Characters *)

Digits == <<"0", "1", "2", "3", "4", "5", "6", "7", "8", "9">>
DigitChars == {Digits[i] : i \in 1..Len(Digits)}
HexChars == DigitChars \cup {"a", "b", "c", "d", "e", "f", "A", "B", "C", "D", "E", "F"}
LetterChars == {"a", "b", "c", "d", "e", "f", "g", "h", "i", "j", "l", "m", "n",
                "o", "p", "q", "t", "v", "x"}
\* \w of the pattern: letters, digits and the underscore
WordChars == LetterChars \cup DigitChars \cup {"_"}
\* [\w\.-] of the pattern
LocalChars == WordChars \cup {".", "-"}

AllIn(s, lo, hi, class) == \A k \in lo..hi : s[k] \in class
Contains(s, ch) == \E k \in 1..Len(s) : s[k] = ch
IndexOf(s, ch) == CHOOSE k \in 1..Len(s) : s[k] = ch /\ \A m \in 1..(k - 1) : s[m] # ch

RECURSIVE Split(_, _)
\* str.split(sep) for a one-character separator
Split(s, sep) ==
    IF ~Contains(s, sep) THEN <<s>>
    ELSE LET k == IndexOf(s, sep)
         IN <<SubSeq(s, 1, k - 1)>> \o Split(SubSeq(s, k + 1, Len(s)), sep)

RECURSIVE DecimalValue(_)
DecimalValue(s) ==
    IF s = <<>> THEN 0
    ELSE 10 * DecimalValue(SubSeq(s, 1, Len(s) - 1))
         + (CHOOSE d \in 0..9 : Digits[d + 1] = s[Len(s)])

----------------------------------------------------------------------------
(* User field validation *)

\* re.match(r'^[\w\.-]+@[\w\.-]+\.\w+$', value): '$' matches at the end of
\* the string and also just before a newline that ends the string.
EmailMatches(value) ==
    LET n == Len(value)
        ends == {n} \cup (IF n >= 1 /\ value[n] = "\n" THEN {n - 1} ELSE {})
    IN \E e \in ends, i \in 1..n, j \in 1..n :
          /\ i >= 2 /\ i <= e
          /\ value[i] = "@"
          /\ AllIn(value, 1, i - 1, LocalChars)
          /\ j >= i + 2 /\ j < e
          /\ value[j] = "."
          /\ AllIn(value, i + 1, j - 1, LocalChars)
          /\ AllIn(value, j + 1, e, WordChars)

\* ipaddress.IPv4Address._parse_octet
OctetOk(octet) ==
    /\ octet # <<>>
    /\ AllIn(octet, 1, Len(octet), DigitChars)
    /\ Len(octet) <= 3
    /\ ~(octet # <<"0">> /\ octet[1] = "0")
    /\ DecimalValue(octet) <= 255

\* ipaddress.IPv4Address(value) accepts the string
IPv4Ok(value) ==
    /\ value # <<>>
    /\ ~Contains(value, "/")
    /\ LET octets == Split(value, ".")
       IN /\ Len(octets) = 4
          /\ \A k \in 1..4 : OctetOk(octets[k])

\* ipaddress.IPv6Address._parse_hextet
HextetOk(hextet) ==
    /\ hextet # <<>>
    /\ AllIn(hextet, 1, Len(hextet), HexChars)
    /\ Len(hextet) <= 4

\* the hextets before and after the '::' at parts[skip]
CompressedOk(parts, skip) ==
    LET n == Len(parts)
        hi == IF parts[1] = <<>> THEN skip - 2 ELSE skip - 1
        lo == IF parts[n] = <<>> THEN n - skip - 1 ELSE n - skip
    IN /\ (parts[1] = <<>>) => hi = 0
       /\ (parts[n] = <<>>) => lo = 0
       /\ 8 - (hi + lo) >= 1
       /\ \A k \in 1..hi : HextetOk(parts[k])
       /\ \A k \in (n - lo + 1)..n : HextetOk(parts[k])

\* the inner empty parts: each is a '::'
Skips(parts) == {k \in 2..(Len(parts) - 1) : parts[k] = <<>>}

HextetsOk(parts) ==
    /\ Len(parts) <= 9
    /\ Cardinality(Skips(parts)) <= 1
    /\ IF Skips(parts) # {}
       THEN CompressedOk(parts, CHOOSE k \in Skips(parts) : TRUE)
       ELSE /\ Len(parts) = 8
            /\ \A k \in 1..Len(parts) : HextetOk(parts[k])

\* an IPv4 suffix must parse and stands for two hextets
PartsOk(parts) ==
    /\ Len(parts) >= 3
    /\ IF Contains(parts[Len(parts)], ".")
       THEN /\ IPv4Ok(parts[Len(parts)])
            /\ HextetsOk(SubSeq(parts, 1, Len(parts) - 1) \o <<<<"0">>, <<"0">>>>)
       ELSE HextetsOk(parts)

\* ipaddress.IPv6Address._ip_int_from_string accepts the string
IPv6PartsOk(addr) ==
    /\ addr # <<>>
    /\ PartsOk(Split(addr, ":"))

\* ipaddress.IPv6Address(value) accepts the string
IPv6Ok(value) ==
    /\ ~Contains(value, "/")
    /\ IF Contains(value, "%")
       THEN LET k == IndexOf(value, "%")
                scope == SubSeq(value, k + 1, Len(value))
            IN /\ scope # <<>>
               /\ ~Contains(scope, "%")
               /\ IPv6PartsOk(SubSeq(value, 1, k - 1))
       ELSE IPv6PartsOk(value)

\* ip_address(value) returns instead of raising ValueError
IpAddressOk(value) == IPv4Ok(value) \/ IPv6Ok(value)

----------------------------------------------------------------------------
(* Outcome of a call: a normal return of obj, or an exception *)

Returned(obj) == [raised |-> FALSE, exc |-> "", obj |-> obj]
Raised(exc, obj) == [raised |-> TRUE, exc |-> exc, obj |-> obj]

\* self.__<field> = value on the object self
SetField(self, field, value) ==
    [f \in DOMAIN self \cup {field} |-> IF f = field THEN value ELSE self[f]]

----------------------------------------------------------------------------
(* Entity and User: property setters and constructor *)

\* an object no attribute of which has been assigned yet
NewObject == [f \in {} |-> ""]

entity_uuid_setter(self, entity_uuid) ==
    Returned(SetField(self, "entity_uuid", entity_uuid))

user_name_setter(self, value) ==
    Returned(SetField(self, "user_name", value))

\* email_setter that assigns before it validates
email_setter_assign_first(self, value) ==
    IF ~EmailMatches(value)
    THEN Raised("ValueError", SetField(self, "email", value))
    ELSE Returned(SetField(self, "email", value))

email_setter(self, value) ==
    IF ~EmailMatches(value)
    THEN Raised("ValueError", self)
    ELSE Returned(SetField(self, "email", value))

last_login_ip_setter(self, value) ==
    IF ~IpAddressOk(value)
    THEN Raised("ValueError", self)
    ELSE Returned(SetField(self, "last_login_ip", value))

user_type_setter(self, value) ==
    IF value < 1 \/ value > 3
    THEN Raised("ValueError", self)
    ELSE Returned(SetField(self, "user_type", value))

\* self.<field> = value: the setter of the property
Setter(self, field, value) ==
    CASE field = "entity_uuid" -> entity_uuid_setter(self, value)
      [] field = "user_name" -> user_name_setter(self, value)
      [] field = "email" -> email_setter(self, value)
      [] field = "last_login_ip" -> last_login_ip_setter(self, value)
      [] field = "user_type" -> user_type_setter(self, value)

RECURSIVE AssignAll(_, _)
\* the assignments in order; the first that raises ends the construction and
\* no object results
AssignAll(self, assignments) ==
    IF assignments = <<>> THEN Returned(self)
    ELSE LET r == Setter(self, assignments[1][1], assignments[1][2])
         IN IF r.raised THEN Raised(r.exc, NewObject)
            ELSE AssignAll(r.obj, Tail(assignments))

\* User.__init__
User(user_uuid, user_name, email, last_login_ip, user_type) ==
    AssignAll(NewObject,
              << <<"entity_uuid", user_uuid>>, <<"user_name", user_name>>,
                 <<"email", email>>, <<"last_login_ip", last_login_ip>>,
                 <<"user_type", user_type>> >>)

----------------------------------------------------------------------------
(* UserRepoMapper *)

RecordKeys == {"uuid", "user_name", "email", "last_login_ip", "user_type"}

\* map_from_repo with the first two constructor arguments exchanged
map_from_repo_swapped(rec) ==
    IF ~(RecordKeys \subseteq DOMAIN rec)
    THEN Raised("KeyError", NewObject)
    ELSE User(rec.user_name, rec.uuid, rec.email, rec.last_login_ip, rec.user_type)

map_from_repo(rec) ==
    IF ~(RecordKeys \subseteq DOMAIN rec)
    THEN Raised("KeyError", NewObject)
    ELSE User(rec.uuid, rec.user_name, rec.email, rec.last_login_ip, rec.user_type)

map_to_repo(entity) ==
    [uuid          |-> entity.entity_uuid,
     user_name     |-> entity.user_name,
     email         |-> entity.email,
     last_login_ip |-> entity.last_login_ip,
     user_type     |-> entity.user_type]

----------------------------------------------------------------------------
(* Input values *)

AllUuids == <<"test-uuid", "non-existing-uuid", "test-uuid-1", "test-uuid-2">>
Uuids == {AllUuids[i] : i \in 1..NumUuids}
Names == {"John Doe", "Jane Doe"}

JohnDoeAtQt   == <<"j", "o", "h", "n", ".", "d", "o", "e", "@", "q", "t", ".", "c", "o", "m">>
LeeAtExample  == <<"l", "e", "e", "@", "e", "x", "a", "m", "p", "l", "e", ".", "c", "o", "m">>
Ip_192_168_1_1 == <<"1", "9", "2", ".", "1", "6", "8", ".", "1", ".", "1">>
Ip_192_168_1_2 == <<"1", "9", "2", ".", "1", "6", "8", ".", "1", ".", "2">>

\* email strings that match the documented pattern local@domain.tld
GoodEmails ==
    { JohnDoeAtQt, LeeAtExample,
      <<"a", "@", "b", ".", ".", "c">>,
      <<"a", "@", "b", ".", "c", "\n">> }
\* email strings that do not
BadEmails ==
    { <<"i", "n", "v", "a", "l", "i", "d">>,
      <<"a", "@", "b">>,
      <<"a", " ", "b", "@", "c", ".", "d">>,
      <<"@", "b", ".", "c">>,
      <<"a", "@", "b", ".", "c", "-">>,
      <<"a", "@", "@", "b", ".", "c">>,
      <<"a", "@", "b", ".", "c", "\n", "\n">>,
      <<>> }
EmailInputs == GoodEmails \cup BadEmails

\* strings that are IPv4 or IPv6 literals
GoodIps ==
    { Ip_192_168_1_1, Ip_192_168_1_2,
      <<":", ":", "1">>,
      <<":", ":", "f", "f", "f", "f", ":", "1", ".", "2", ".", "3", ".", "4">>,
      <<"f", "e", "8", "0", ":", ":", "1", "%", "e">>,
      <<"1", ":", "2", ":", "3", ":", "4", ":", "5", ":", "6", ":", "7", ":", ":">> }
\* strings that are not
BadIps ==
    { <<"1", "9", "2", ".", "i", "n", "v", "a", "l", "i", "d">>,
      <<"2", "5", "6", ".", "1", ".", "1", ".", "1">>,
      <<"1", ".", "2", ".", "3">>,
      <<"1", ":", ":", "2", ":", ":", "3">>,
      <<":", "1">>,
      <<"1", "2", "3", "4", "5", ":", ":">>,
      <<"f", "e", "8", "0", ":", ":", "1", "%">>,
      <<"1", ".", "2", ".", "3", ".", "4", "/", "2", "4">>,
      <<"1", ":", "2", ":", "3", ":", "4", ":", "5", ":", "6", ":", "7">>,
      <<"g", ":", ":", "1">>,
      <<":", ":", "1", ".", "2", ".", "3">>,
      <<"1", ":", ":", "2", ":", "3", ":", "4", ":", "5", ":", "6", ":", "7", ":", "8">>,
      <<>> }
IpInputs == GoodIps \cup BadIps

TypeInputs == (0 - 1)..MaxTypeInput

----------------------------------------------------------------------------
(* The table: rows in storage scan order, and the statements the code runs *)

None == [none |-> TRUE]

\* value of the deleted column of a row inserted without one
DeletedDefault == 0

\* uuid is the primary key of the table
PrimaryKeyViolated(t, entity_data) ==
    \E k \in 1..Len(t) : t[k].uuid = entity_data.uuid

\* SelectAll without the WHERE clause
SelectAll_unfiltered(t, include_deleted) == t

\* SELECT * FROM table [WHERE deleted = 0], then fetchall()
SelectAll(t, include_deleted) ==
    LET Test(row) == include_deleted \/ row.deleted = 0
    IN SelectSeq(t, Test)

\* SelectOneByUuid with "AND deleted = 0"
SelectOneByUuid_live(t, entity_uuid) ==
    LET Test(row) == row.uuid = entity_uuid /\ row.deleted = 0
        rows == SelectSeq(t, Test)
    IN IF rows = <<>> THEN None ELSE rows[1]

\* SELECT * FROM table WHERE uuid = '<entity_uuid>', then fetchone()
SelectOneByUuid(t, entity_uuid) ==
    LET Test(row) == row.uuid = entity_uuid
        rows == SelectSeq(t, Test)
    IN IF rows = <<>> THEN None ELSE rows[1]

\* INSERT INTO table (<keys of entity_data>) VALUES (<its values>)
Insert(t, entity_data) ==
    Append(t, [f \in DOMAIN entity_data \cup {"deleted"} |->
                 IF f \in DOMAIN entity_data THEN entity_data[f] ELSE DeletedDefault])

\* Update that also sets deleted = 0
Update_resets_deleted(t, entity_data) ==
    LET keys == DOMAIN entity_data \ {"uuid"}
    IN [k \in 1..Len(t) |->
          IF t[k].uuid = entity_data.uuid
          THEN [f \in DOMAIN t[k] |->
                  IF f \in keys THEN entity_data[f]
                  ELSE IF f = "deleted" THEN 0 ELSE t[k][f]]
          ELSE t[k]]

\* Update that leaves last_login_ip out of the SET clause
Update_without_ip(t, entity_data) ==
    LET keys == DOMAIN entity_data \ {"uuid", "last_login_ip"}
    IN [k \in 1..Len(t) |->
          IF t[k].uuid = entity_data.uuid
          THEN [f \in DOMAIN t[k] |-> IF f \in keys THEN entity_data[f] ELSE t[k][f]]
          ELSE t[k]]

\* UPDATE table SET <key = value for the keys but uuid> WHERE uuid = '<uuid>'
Update(t, entity_data) ==
    LET keys == DOMAIN entity_data \ {"uuid"}
    IN [k \in 1..Len(t) |->
          IF t[k].uuid = entity_data.uuid
          THEN [f \in DOMAIN t[k] |-> IF f \in keys THEN entity_data[f] ELSE t[k][f]]
          ELSE t[k]]

\* SoftDelete without the WHERE clause
SoftDelete_all(t, entity_uuid) ==
    [k \in 1..Len(t) |-> [t[k] EXCEPT !.deleted = 1]]

\* UPDATE table SET deleted = 1 WHERE uuid = '<entity_uuid>'
SoftDelete(t, entity_uuid) ==
    [k \in 1..Len(t) |->
       IF t[k].uuid = entity_uuid THEN [t[k] EXCEPT !.deleted = 1] ELSE t[k]]

\* Delete that flags the row instead of removing it
Delete_as_flag(t, entity_uuid) ==
    [k \in 1..Len(t) |->
       IF t[k].uuid = entity_uuid THEN [t[k] EXCEPT !.deleted = 1] ELSE t[k]]

\* Delete without the WHERE clause
Delete_all(t, entity_uuid) == <<>>

\* DELETE FROM table Where uuid = '<entity_uuid>'
Delete(t, entity_uuid) ==
    LET Test(row) == row.uuid # entity_uuid
    IN SelectSeq(t, Test)

\* f"{user_type}" of an int: its decimal digits
RECURSIVE DecimalDigits(_)
DecimalDigits(n) ==
    IF n < 10 THEN <<Digits[n + 1]>>
    ELSE DecimalDigits(n \div 10) \o <<Digits[(n % 10) + 1]>>

\* f"{user_type}" of an int, with its sign
FormatInt(n) == IF n < 0 THEN <<"-">> \o DecimalDigits(0 - n) ELSE DecimalDigits(n)

\* the user_type column is declared INTEGER
UserTypeAffinity == "INTEGER"

\* the text is a well-formed integer literal
LooksLikeInteger(text) ==
    LET digits == IF text # <<>> /\ text[1] \in {"-", "+"} THEN Tail(text) ELSE text
    IN digits # <<>> /\ AllIn(digits, 1, Len(digits), DigitChars)

\* the integer that a well-formed integer literal denotes
IntegerValue(text) ==
    IF text[1] = "-" THEN 0 - DecimalValue(Tail(text))
    ELSE IF text[1] = "+" THEN DecimalValue(Tail(text))
    ELSE DecimalValue(text)

\* column = '<text>': the column's affinity is applied to the text literal
\* before the comparison; an integer and a text are never equal
EqualsTextLiteral(stored, affinity, text) ==
    /\ affinity \in {"INTEGER", "NUMERIC", "REAL"}
    /\ LooksLikeInteger(text)
    /\ stored = IntegerValue(text)

\* SelectByUserType with "AND deleted = 0"
SelectByUserType_live(t, user_type) ==
    LET Test(row) == /\ EqualsTextLiteral(row.user_type, UserTypeAffinity, FormatInt(user_type))
                     /\ row.deleted = 0
    IN SelectSeq(t, Test)

\* SELECT * FROM user WHERE user_type = '<user_type>', then fetchall()
SelectByUserType(t, user_type) ==
    LET Test(row) == EqualsTextLiteral(row.user_type, UserTypeAffinity, FormatInt(user_type))
    IN SelectSeq(t, Test)

----------------------------------------------------------------------------
(* The Repository methods as the sequence of their statements *)

fetch_all_code ==
    <<"connect", "SELECT_ALL", "close", "map_all", "return">>

fetch_one_by_uuid_code ==
    <<"connect", "SELECT_ONE", "close", "map_one", "return">>

\* add_one without conn.commit()
add_one_code_uncommitted ==
    <<"connect", "INSERT", "close">> \o fetch_one_by_uuid_code

\* the mutation, then return self.fetch_one_by_uuid(entity.entity_uuid)
add_one_code ==
    <<"connect", "INSERT", "commit", "close">> \o fetch_one_by_uuid_code

\* restored = self.fetch_one_by_uuid(entity_uuid); if restored: the mutation;
\* return restored
soft_delete_one_by_uuid_code ==
    <<"connect", "SELECT_ONE", "close", "map_one", "if_found",
      "connect", "SOFT_DELETE", "commit", "close", "return">>

\* delete_one_by_uuid without "if restored_entity_for_delete:"
delete_one_by_uuid_code_unguarded ==
    <<"connect", "SELECT_ONE", "close", "map_one",
      "connect", "DELETE", "commit", "close", "return">>

delete_one_by_uuid_code ==
    <<"connect", "SELECT_ONE", "close", "map_one", "if_found",
      "connect", "DELETE", "commit", "close", "return">>

update_one_code ==
    <<"connect", "UPDATE", "commit", "close">> \o fetch_one_by_uuid_code

fetch_users_by_user_type_code ==
    <<"connect", "SELECT_BY_TYPE", "close", "map_all", "return">>

Code(op) ==
    CASE op = "fetch_all" -> fetch_all_code
      [] op = "fetch_one_by_uuid" -> fetch_one_by_uuid_code
      [] op = "add_one" -> add_one_code
      [] op = "soft_delete_one_by_uuid" -> soft_delete_one_by_uuid_code
      [] op = "delete_one_by_uuid" -> delete_one_by_uuid_code
      [] op = "update_one" -> update_one_code
      [] op = "fetch_users_by_user_type" -> fetch_users_by_user_type_code
      [] OTHER -> <<>>

----------------------------------------------------------------------------
(* Callers of the repository *)

AllCallers == {"caller-1", "caller-2"}

\* a connection outside a transaction
NoTxn == [active |-> FALSE, rows |-> <<>>]
Txn(rows) == [active |-> TRUE, rows |-> rows]

\* a caller outside any call. Of a call: pre is the table when the call was
\* entered, log the connection events and statements so far, afterDelete the
\* id given to the delete_one_by_uuid call that the caller made just before
\* and whether that call returned an entity, during the commits that other
\* callers made while the call was running
Idle ==
    [op |-> "idle", arg |-> None, pc |-> 1, state |-> "idle", pre |-> <<>>,
     log |-> <<>>, txn |-> NoTxn, fetched |-> None, value |-> None,
     result |-> None, afterDelete |-> None, during |-> <<>>]

Running(c) == c \in callers /\ st[c].state = "running"
Instr(c) == Code(st[c].op)[st[c].pc]
At(c, instrs) == Running(c) /\ Instr(c) \in instrs

\* the id the call's statements are scoped to
UuidOf(s) ==
    IF s.op \in {"add_one", "update_one"} THEN s.arg.entity_uuid ELSE s.arg

\* what the caller's connection sees: its own uncommitted changes if any
View(s) == IF s.txn.active THEN s.txn.rows ELSE table

\* the id of the call s if it is a delete_one_by_uuid that has returned
JustDeleted(s) ==
    IF s.op = "delete_one_by_uuid" /\ s.state = "returned"
    THEN [uuid |-> s.arg, found |-> s.result.obj # None]
    ELSE None

Enter(c, op, arg) ==
    /\ c \in callers
    /\ st[c].state # "running"
    /\ st' = [st EXCEPT ![c] =
                [Idle EXCEPT !.op = op, !.arg = arg, !.state = "running",
                             !.pre = table,
                             !.afterDelete = JustDeleted(st[c])]]
    /\ UNCHANGED <<table, callers, userVars, mapperVars>>

fetch_all(c, include_deleted) == Enter(c, "fetch_all", include_deleted)
fetch_one_by_uuid(c, entity_uuid) == Enter(c, "fetch_one_by_uuid", entity_uuid)
add_one(c, entity) == Enter(c, "add_one", entity)
soft_delete_one_by_uuid(c, entity_uuid) == Enter(c, "soft_delete_one_by_uuid", entity_uuid)
delete_one_by_uuid(c, entity_uuid) == Enter(c, "delete_one_by_uuid", entity_uuid)
update_one(c, entity) == Enter(c, "update_one", entity)
fetch_users_by_user_type(c, user_type) == Enter(c, "fetch_users_by_user_type", user_type)

\* the call ends with an exception; its connection is not closed
Raise(s, exc) ==
    [s EXCEPT !.state = "raised", !.result = Raised(exc, None)]

\* conn = self.create_connection()
create_connection(c) ==
    /\ At(c, {"connect"})
    /\ st' = [st EXCEPT ![c] =
                [@ EXCEPT !.pc = @ + 1, !.log = Append(@, "connect"),
                          !.txn = NoTxn]]
    /\ UNCHANGED <<table, callers, userVars, mapperVars>>

\* the exceptions of the storage layer (subclasses of sqlite3.Error)
StorageErrors == {"OperationalError", "IntegrityError"}

\* sqlite3.connect('demo.db') raises: no connection results, and the
\* exception leaves the method
connect_fails(c) ==
    /\ At(c, {"connect"})
    /\ st' = [st EXCEPT ![c] =
                Raise([@ EXCEPT !.log = Append(@, "connect_failed")], "OperationalError")]
    /\ UNCHANGED <<table, callers, userVars, mapperVars>>

\* execute_fails where the method catches the exception and returns None
execute_fails_swallowed(c) ==
    /\ At(c, {"SELECT_ALL", "SELECT_ONE", "SELECT_BY_TYPE",
               "INSERT", "UPDATE", "SOFT_DELETE", "DELETE"})
    /\ st' = [st EXCEPT ![c] =
                [@ EXCEPT !.log = Append(@, "execute_failed"),
                          !.state = "returned", !.result = Returned(None)]]
    /\ UNCHANGED <<table, callers, userVars, mapperVars>>

\* cr.execute(query) raises: the statement has changed nothing, and the
\* exception leaves the method before its conn.close()
execute_fails(c) ==
    /\ At(c, {"SELECT_ALL", "SELECT_ONE", "SELECT_BY_TYPE",
               "INSERT", "UPDATE", "SOFT_DELETE", "DELETE"})
    /\ st' = [st EXCEPT ![c] =
                Raise([@ EXCEPT !.log = Append(@, "execute_failed")], "OperationalError")]
    /\ UNCHANGED <<table, callers, userVars, mapperVars>>

\* cr.execute(query) of a SELECT, and fetchall() / fetchone()
execute_select(c) ==
    /\ At(c, {"SELECT_ALL", "SELECT_ONE", "SELECT_BY_TYPE"})
    /\ LET s == st[c]
           rows == CASE Instr(c) = "SELECT_ALL" -> SelectAll(View(s), s.arg)
                     [] Instr(c) = "SELECT_ONE" -> SelectOneByUuid(View(s), UuidOf(s))
                     [] Instr(c) = "SELECT_BY_TYPE" -> SelectByUserType(View(s), s.arg)
       IN st' = [st EXCEPT ![c] =
                   [s EXCEPT !.pc = @ + 1, !.log = Append(@, Instr(c)),
                             !.fetched = rows]]
    /\ UNCHANGED <<table, callers, userVars, mapperVars>>

\* cr.execute(query) of an INSERT, UPDATE or DELETE: the change stays in the
\* connection's transaction until commit; one connection writes at a time
execute_write(c) ==
    /\ At(c, {"INSERT", "UPDATE", "SOFT_DELETE", "DELETE"})
    /\ \A d \in callers \ {c} : ~st[d].txn.active
    /\ LET s == st[c]
           i == Instr(c)
           entity_data == map_to_repo(s.arg)
       IN st' = [st EXCEPT ![c] =
                   IF i = "INSERT" /\ PrimaryKeyViolated(View(s), entity_data)
                   THEN Raise([s EXCEPT !.log = Append(@, i)], "IntegrityError")
                   ELSE [s EXCEPT !.pc = @ + 1, !.log = Append(@, i),
                                  !.txn = Txn(CASE i = "INSERT" -> Insert(View(s), entity_data)
                                                [] i = "UPDATE" -> Update(View(s), entity_data)
                                                [] i = "SOFT_DELETE" -> SoftDelete(View(s), s.arg)
                                                [] i = "DELETE" -> Delete(View(s), s.arg))]]
    /\ UNCHANGED <<table, callers, userVars, mapperVars>>

\* the commit of the call s, as the running call other meets it: the
\* statement committed, its id, and the position of other at that moment
Committed(s, other) ==
    [instr |-> Code(s.op)[s.pc - 1], uuid |-> UuidOf(s), pc |-> other.pc]

\* conn.commit(): the changes of the connection become the table that every
\* connection reads
commit(c) ==
    /\ At(c, {"commit"})
    /\ table' = View(st[c])
    /\ st' = [d \in DOMAIN st |->
                IF d = c
                THEN [st[c] EXCEPT !.pc = @ + 1, !.log = Append(@, "commit"),
                                   !.txn = NoTxn]
                ELSE IF Running(d)
                     THEN [st[d] EXCEPT !.during = Append(@, Committed(st[c], st[d]))]
                     ELSE st[d]]
    /\ UNCHANGED <<callers, userVars, mapperVars>>

\* conn.close(): an uncommitted transaction is rolled back
close(c) ==
    /\ At(c, {"close"})
    /\ st' = [st EXCEPT ![c] =
                [@ EXCEPT !.pc = @ + 1, !.log = Append(@, "close"), !.txn = NoTxn]]
    /\ UNCHANGED <<table, callers, userVars, mapperVars>>

\* the list of the mapped rows, unless mapping a row raised
Collect(outs) ==
    IF \E k \in 1..Len(outs) : outs[k].raised
    THEN Raised(outs[CHOOSE k \in 1..Len(outs) :
                       outs[k].raised /\ \A m \in 1..(k - 1) : ~outs[m].raised].exc,
                None)
    ELSE Returned([k \in 1..Len(outs) |-> outs[k].obj])

\* [self.repo_mapper.map_from_repo(row) for row in fetched_data]
MapAll(rows) == Collect([k \in 1..Len(rows) |-> map_from_repo(rows[k])])

\* a mapped row, or the exception of the mapping
Mapped(out) == IF out.raised THEN Raised(out.exc, None) ELSE out

\* MapOne that raises when no row was fetched
MapOne_strict(row) ==
    IF row = None THEN Raised("LookupError", None) ELSE Mapped(map_from_repo(row))

\* None if not fetched_one_record else self.repo_mapper.map_from_repo(fetched_one_record)
MapOne(row) ==
    IF row = None THEN Returned(None) ELSE Mapped(map_from_repo(row))

\* the rows read are mapped to entities
map_fetched(c) ==
    /\ At(c, {"map_all", "map_one"})
    /\ LET s == st[c]
           out == IF Instr(c) = "map_all" THEN MapAll(s.fetched) ELSE MapOne(s.fetched)
       IN st' = [st EXCEPT ![c] =
                   IF out.raised THEN Raise(s, out.exc)
                   ELSE [s EXCEPT !.pc = @ + 1, !.value = out.obj]]
    /\ UNCHANGED <<table, callers, userVars, mapperVars>>

\* if_found without its test: the mutation is run whatever was fetched
if_found_always(c) ==
    /\ At(c, {"if_found"})
    /\ st' = [st EXCEPT ![c] = [@ EXCEPT !.pc = @ + 1]]
    /\ UNCHANGED <<table, callers, userVars, mapperVars>>

\* if restored_entity: ... (skipped to the return when nothing was fetched)
if_found(c) ==
    /\ At(c, {"if_found"})
    /\ LET s == st[c]
       IN st' = [st EXCEPT ![c] =
                   [s EXCEPT !.pc = IF s.value # None THEN s.pc + 1
                                    ELSE Len(Code(s.op))]]
    /\ UNCHANGED <<table, callers, userVars, mapperVars>>

\* return of a fresh fetch by uuid instead of the value mapped before
return_refetched(c) ==
    /\ At(c, {"return"})
    /\ LET s == st[c]
       IN st' = [st EXCEPT ![c] =
                   [s EXCEPT !.state = "returned",
                             !.result = IF s.op \in {"delete_one_by_uuid",
                                                     "soft_delete_one_by_uuid"}
                                        THEN MapOne(SelectOneByUuid(table, s.arg))
                                        ELSE Returned(s.value)]]
    /\ UNCHANGED <<table, callers, userVars, mapperVars>>

\* return <the mapped value>
return(c) ==
    /\ At(c, {"return"})
    /\ LET s == st[c]
       IN st' = [st EXCEPT ![c] =
                   [s EXCEPT !.state = "returned", !.result = Returned(s.value)]]
    /\ UNCHANGED <<table, callers, userVars, mapperVars>>

\* the entities a caller passes to add_one and update_one
RepoUsers ==
    { User(u, "John Doe", JohnDoeAtQt, Ip_192_168_1_1, 1).obj : u \in Uuids }
    \cup { User(u, "Jane Doe", LeeAtExample, Ip_192_168_1_2, 2).obj : u \in Uuids }

NextRepo ==
    \/ \E c \in callers, include_deleted \in BOOLEAN : fetch_all(c, include_deleted)
    \/ \E c \in callers, entity_uuid \in Uuids : fetch_one_by_uuid(c, entity_uuid)
    \/ \E c \in callers, entity \in RepoUsers : add_one(c, entity)
    \/ \E c \in callers, entity_uuid \in Uuids : soft_delete_one_by_uuid(c, entity_uuid)
    \/ \E c \in callers, entity_uuid \in Uuids : delete_one_by_uuid(c, entity_uuid)
    \/ \E c \in callers, entity \in RepoUsers : update_one(c, entity)
    \/ \E c \in callers, user_type \in TypeInputs : fetch_users_by_user_type(c, user_type)
    \/ \E c \in callers : create_connection(c)
    \/ \E c \in callers : execute_select(c)
    \/ \E c \in callers : execute_write(c)
    \/ \E c \in callers : commit(c)
    \/ \E c \in callers : close(c)
    \/ \E c \in callers : map_fetched(c)
    \/ \E c \in callers : if_found(c)
    \/ \E c \in callers : return(c)

----------------------------------------------------------------------------
(* The User object under test: construction and assignments *)

NoUser == None
NoCall == [op |-> "none"]

\* the outcome r of User(args) is assigned to self.user, unless it raised
Constructed(args, r) ==
    /\ user' = IF r.raised THEN user ELSE r.obj
    /\ prevUser' = user
    /\ last' = [op |-> "__init__", value |-> args, raised |-> r.raised, exc |-> r.exc]
    /\ UNCHANGED <<repoVars, mapperVars>>

\* self.user = User(...), once
Construct ==
    /\ user = NoUser
    /\ last = NoCall
    /\ \E u \in Uuids, n \in Names, e \in EmailInputs, i \in IpInputs, t \in TypeInputs :
          Constructed(<<u, n, e, i, t>>, User(u, n, e, i, t))

\* self.user.<field> = value through the property setter
Assign(field, r, value) ==
    /\ user # NoUser
    /\ user' = r.obj
    /\ prevUser' = user
    /\ last' = [op |-> field, value |-> value, raised |-> r.raised, exc |-> r.exc]
    /\ UNCHANGED <<repoVars, mapperVars>>

SetEntityUuid ==
    \E value \in Uuids : Assign("entity_uuid", entity_uuid_setter(user, value), value)
SetUserName ==
    \E value \in Names : Assign("user_name", user_name_setter(user, value), value)
SetEmail ==
    \E value \in EmailInputs : Assign("email", email_setter(user, value), value)
SetLastLoginIp ==
    \E value \in IpInputs : Assign("last_login_ip", last_login_ip_setter(user, value), value)
SetUserType ==
    \E value \in TypeInputs : Assign("user_type", user_type_setter(user, value), value)

NextUser ==
    \/ Construct
    \/ SetEntityUuid
    \/ SetUserName
    \/ SetEmail
    \/ SetLastLoginIp
    \/ SetUserType

----------------------------------------------------------------------------
(* The mapper applied to a User, and to a record *)

NoRecord == None
NoOutcome == None

\* every User the constructor yields from the input values
ValidUsers ==
    { User(u, n, e, i, t).obj :
        <<u, n, e, i, t>> \in
          { a \in Uuids \X Names \X EmailInputs \X IpInputs \X TypeInputs :
              ~User(a[1], a[2], a[3], a[4], a[5]).raised } }

\* records as a caller may hand them to map_from_repo: any input values,
\* and one record that lacks a key
RawRecords ==
    [uuid : Uuids, user_name : {"John Doe"}, email : EmailInputs,
     last_login_ip : IpInputs, user_type : TypeInputs]
    \cup { [uuid |-> "test-uuid", user_name |-> "John Doe"] }

MapToRepo ==
    /\ mpc = "start"
    /\ muser # NoUser
    /\ record' = map_to_repo(muser)
    /\ mpc' = "to_repo"
    /\ UNCHANGED <<muser, mapped, repoVars, userVars>>

MapFromRepo ==
    /\ \/ mpc = "to_repo"
       \/ mpc = "start" /\ muser = NoUser
    /\ mapped' = map_from_repo(record)
    /\ mpc' = "done"
    /\ UNCHANGED <<muser, record, repoVars, userVars>>

NextMapper == MapToRepo \/ MapFromRepo

----------------------------------------------------------------------------
(* Specifications *)

RepoIdle ==
    /\ table = <<>>
    /\ st = [c \in AllCallers |-> Idle]

UserIdle ==
    /\ user = NoUser
    /\ prevUser = NoUser
    /\ last = NoCall

MapperIdle ==
    /\ mpc = "idle"
    /\ muser = NoUser
    /\ record = NoRecord
    /\ mapped = NoOutcome

\* one caller uses the repository of an empty table
Init ==
    /\ RepoIdle
    /\ callers = {"caller-1"}
    /\ UserIdle
    /\ MapperIdle

Next == NextRepo

Spec == Init /\ [][Next]_vars

\* the repository of a store that can fail to connect and to execute
NextFailing ==
    \/ NextRepo
    \/ \E c \in callers : connect_fails(c)
    \/ \E c \in callers : execute_fails(c)

SpecFailing == Init /\ [][NextFailing]_vars

RECURSIVE TablesOf(_)
\* the tables that hold, for each id of ids in order, no row, a live row
\* or a soft-deleted row of John Doe
TablesOf(ids) ==
    IF ids = <<>> THEN {<<>>}
    ELSE LET row == Insert(<<>>, map_to_repo(User(ids[Len(ids)], "John Doe", JohnDoeAtQt,
                                                  Ip_192_168_1_1, 1).obj))
             rest == TablesOf(SubSeq(ids, 1, Len(ids) - 1))
         IN rest \cup {t \o row : t \in rest} \cup {t \o SoftDelete(row, row[1].uuid) : t \in rest}

\* the ids and entities that concurrent callers pass
RaceUuids == {AllUuids[i] : i \in 1..NumRaceUuids}
RaceUsers == {User(u, "Jane Doe", LeeAtExample, Ip_192_168_1_2, 2).obj : u \in RaceUuids}

\* the call that a caller makes is its first
FirstCall(c) == c \in callers /\ st[c].state = "idle"

\* two callers, each making one mutating call, on one table
NextConcurrent ==
    \/ \E c \in callers : FirstCall(c) /\ \E entity \in RaceUsers : add_one(c, entity)
    \/ \E c \in callers : FirstCall(c) /\ \E entity \in RaceUsers : update_one(c, entity)
    \/ \E c \in callers : FirstCall(c) /\ \E entity_uuid \in RaceUuids : soft_delete_one_by_uuid(c, entity_uuid)
    \/ \E c \in callers : FirstCall(c) /\ \E entity_uuid \in RaceUuids : delete_one_by_uuid(c, entity_uuid)
    \/ \E c \in callers : create_connection(c)
    \/ \E c \in callers : execute_select(c)
    \/ \E c \in callers : execute_write(c)
    \/ \E c \in callers : commit(c)
    \/ \E c \in callers : close(c)
    \/ \E c \in callers : map_fetched(c)
    \/ \E c \in callers : if_found(c)
    \/ \E c \in callers : return(c)

InitConcurrent ==
    /\ table \in TablesOf(SubSeq(AllUuids, 1, NumRaceUuids))
    /\ st = [c \in AllCallers |-> Idle]
    /\ callers = AllCallers
    /\ UserIdle
    /\ MapperIdle

SpecConcurrent == InitConcurrent /\ [][NextConcurrent]_vars

\* a User is constructed and its fields are assigned
InitUser ==
    /\ RepoIdle
    /\ callers = {}
    /\ UserIdle
    /\ MapperIdle

SpecUser == InitUser /\ [][NextUser]_vars

\* the mapper is applied to a valid User, or to a record
InitMapper ==
    /\ RepoIdle
    /\ callers = {}
    /\ UserIdle
    /\ mpc = "start"
    /\ \/ muser \in ValidUsers /\ record = NoRecord
       \/ muser = NoUser /\ record \in RawRecords
    /\ mapped = NoOutcome

SpecMapper == InitMapper /\ [][NextMapper]_vars

----------------------------------------------------------------------------
(* What the claims speak of *)

HasRow(t, id) == \E k \in 1..Len(t) : t[k].uuid = id
RowOf(t, id) == t[CHOOSE k \in 1..Len(t) : t[k].uuid = id]
EntityOf(row) ==
    [entity_uuid |-> row.uuid, user_name |-> row.user_name, email |-> row.email,
     last_login_ip |-> row.last_login_ip, user_type |-> row.user_type]
IsPrefix(a, b) == Len(a) <= Len(b) /\ a = SubSeq(b, 1, Len(a))
Mutating == {"INSERT", "UPDATE", "SOFT_DELETE", "DELETE", "commit"}
Deleting == {"delete_one_by_uuid", "soft_delete_one_by_uuid"}
PresenceCheck == <<"connect", "SELECT_ONE", "close">>

\* the call of caller c is a (soft) delete of an id that matched no row
DeleteOfAbsent(c) ==
    /\ st[c].op \in Deleting
    /\ ~HasRow(st[c].pre, st[c].arg)

----------------------------------------------------------------------------
(* C1: delete_one_by_uuid and soft_delete_one_by_uuid of an id that matches
   no row return None and leave the store as it was: throughout the call the
   table is the table at entry, no INSERT, UPDATE, DELETE or commit is
   issued, and the call does not raise. *)
C1_AbsentIdIsNoOp ==
    \A c \in callers :
       DeleteOfAbsent(c) =>
          /\ table = st[c].pre
          /\ \A k \in 1..Len(st[c].log) : st[c].log[k] \notin Mutating
          /\ ~st[c].txn.active
          /\ st[c].state # "raised"
          /\ st[c].state = "returned" => st[c].result = Returned(None)

\* a soft delete of an absent id has returned, on a table that holds a row
C1_Witness ==
    \E c \in callers :
       /\ DeleteOfAbsent(c)
       /\ st[c].op = "soft_delete_one_by_uuid"
       /\ st[c].state = "returned"
       /\ st[c].pre # <<>>

(* C2, as stated: during a (soft) delete of an id that matches no row no
   connection is opened and no statement is executed, the presence check
   included. *)
C2_NothingOpenedOrExecuted ==
    \A c \in callers : DeleteOfAbsent(c) => st[c].log = <<>>

(* C2, amended: during a (soft) delete of an id that matches no row, the
   presence check opens one connection, executes one SELECT by uuid and
   closes the connection; nothing else is opened or executed. *)
C2_OnlyThePresenceCheck ==
    \A c \in callers :
       DeleteOfAbsent(c) =>
          /\ IsPrefix(st[c].log, PresenceCheck)
          /\ st[c].state = "returned" => st[c].log = PresenceCheck

\* a delete of an absent id has returned
C2_Witness ==
    \E c \in callers :
       /\ DeleteOfAbsent(c)
       /\ st[c].op = "delete_one_by_uuid"
       /\ st[c].state = "returned"

----------------------------------------------------------------------------
\* the table t without its k-th row
WithoutRow(t, k) == [m \in 1..(Len(t) - 1) |-> IF m < k THEN t[m] ELSE t[m + 1]]
IndexOfRow(t, id) == CHOOSE k \in 1..Len(t) : t[k].uuid = id
EntitiesOf(rows) == [k \in 1..Len(rows) |-> EntityOf(rows[k])]
Live(row) == row.deleted = 0
\* the call of caller c, of operation op, was entered with a row of its id
CallOnPresent(c, op) ==
    /\ st[c].op = op
    /\ HasRow(st[c].pre, UuidOf(st[c]))

(* C3: delete_one_by_uuid of an id that matches a row removes that row and
   no other, commits, and returns the entity fetched before the removal;
   a fetch_one_by_uuid of that id made right afterwards returns None. *)
C3_DeleteRemovesTheRow ==
    \A c \in callers :
       /\ CallOnPresent(c, "delete_one_by_uuid") =>
             /\ st[c].state # "raised"
             /\ st[c].state = "returned" =>
                   /\ table = WithoutRow(st[c].pre, IndexOfRow(st[c].pre, st[c].arg))
                   /\ st[c].log = PresenceCheck \o <<"connect", "DELETE", "commit", "close">>
                   /\ st[c].result = Returned(EntityOf(RowOf(st[c].pre, st[c].arg)))
       /\ ( /\ st[c].op = "fetch_one_by_uuid"
            /\ st[c].afterDelete # None
            /\ st[c].afterDelete.uuid = st[c].arg
            /\ st[c].state # "running" ) => st[c].result = Returned(None)

\* after a delete that returned an entity and left a row in the table, the
\* fetch of the deleted id has returned
C3_Witness ==
    \E c \in callers :
       /\ st[c].op = "fetch_one_by_uuid"
       /\ st[c].afterDelete = [uuid |-> st[c].arg, found |-> TRUE]
       /\ st[c].state = "returned"
       /\ st[c].pre # <<>>

(* C4: soft_delete_one_by_uuid of an id that matches a row sets the deleted
   flag of that row, removes no row, changes no other column and no other
   row, commits, and returns the entity fetched before the mutation: the
   call reads the row once, before the UPDATE. *)
C4_SoftDeleteFlagsTheRow ==
    \A c \in callers :
       CallOnPresent(c, "soft_delete_one_by_uuid") =>
          /\ st[c].state # "raised"
          /\ st[c].state = "returned" =>
                /\ Len(table) = Len(st[c].pre)
                /\ \A k \in 1..Len(table) :
                      table[k] = IF st[c].pre[k].uuid = st[c].arg
                                 THEN [st[c].pre[k] EXCEPT !.deleted = 1]
                                 ELSE st[c].pre[k]
                /\ st[c].log = PresenceCheck \o <<"connect", "SOFT_DELETE", "commit", "close">>
                /\ st[c].result = Returned(EntityOf(RowOf(st[c].pre, st[c].arg)))

\* a soft delete of a live row has returned, with another live row in the table
C4_Witness ==
    \E c \in callers :
       /\ CallOnPresent(c, "soft_delete_one_by_uuid")
       /\ st[c].state = "returned"
       /\ Live(RowOf(st[c].pre, st[c].arg))
       /\ \E k \in 1..Len(table) : table[k].uuid # st[c].arg /\ Live(table[k])

(* C5: fetch_all() returns exactly the rows whose deleted flag is 0 and
   fetch_all(True) every row, as entities in scan order; it returns an empty
   list, and does not raise, when no row qualifies. *)
C5_FetchAllFilters ==
    \A c \in callers :
       st[c].op = "fetch_all" =>
          /\ st[c].state # "raised"
          /\ st[c].state = "returned" =>
                st[c].result =
                   Returned(EntitiesOf(IF st[c].arg THEN st[c].pre
                                       ELSE SelectSeq(st[c].pre, Live)))

\* fetch_all() has returned from a table with a soft-deleted and a live row
C5_Witness ==
    \E c \in callers :
       /\ st[c].op = "fetch_all"
       /\ st[c].arg = FALSE
       /\ st[c].state = "returned"
       /\ \E k \in 1..Len(st[c].pre) : ~Live(st[c].pre[k])
       /\ \E k \in 1..Len(st[c].pre) : Live(st[c].pre[k])

(* C6: fetch_one_by_uuid returns the entity of the row with that uuid
   whenever there is one, soft-deleted or not, and None exactly when there is
   none; a soft-deleted row can still be updated, soft-deleted again and
   hard-deleted. *)
C6_FetchOneIgnoresTheFlag ==
    \A c \in callers :
       /\ st[c].op = "fetch_one_by_uuid" =>
             /\ st[c].state # "raised"
             /\ st[c].state = "returned" =>
                   st[c].result =
                      IF HasRow(st[c].pre, st[c].arg)
                      THEN Returned(EntityOf(RowOf(st[c].pre, st[c].arg)))
                      ELSE Returned(None)
       /\ ( /\ st[c].op \in {"update_one", "soft_delete_one_by_uuid", "delete_one_by_uuid"}
            /\ HasRow(st[c].pre, UuidOf(st[c]))
            /\ ~Live(RowOf(st[c].pre, UuidOf(st[c])))
            /\ st[c].state # "running" ) =>
             /\ st[c].state = "returned"
             /\ st[c].result.obj # None
             /\ st[c].op = "update_one" =>
                   EntityOf(RowOf(table, UuidOf(st[c]))) = st[c].arg
             /\ st[c].op = "soft_delete_one_by_uuid" =>
                   ~Live(RowOf(table, UuidOf(st[c])))
             /\ st[c].op = "delete_one_by_uuid" => ~HasRow(table, UuidOf(st[c]))

\* the fetch of a soft-deleted row has returned
C6_Witness ==
    \E c \in callers :
       /\ CallOnPresent(c, "fetch_one_by_uuid")
       /\ ~Live(RowOf(st[c].pre, st[c].arg))
       /\ st[c].state = "returned"

(* C7: add_one of an entity whose id matches no row inserts one row that
   holds the entity's mapped columns, commits before it reads back, and
   returns the entity mapped from the stored row, which is not None and has
   the id, name, email, address and type of the input. *)
C7_AddOneInsertsAndReadsBack ==
    \A c \in callers :
       (st[c].op = "add_one" /\ ~HasRow(st[c].pre, UuidOf(st[c]))) =>
          /\ st[c].state # "raised"
          /\ st[c].state = "returned" =>
                /\ Len(table) = Len(st[c].pre) + 1
                /\ SubSeq(table, 1, Len(st[c].pre)) = st[c].pre
                /\ EntityOf(table[Len(table)]) = st[c].arg
                /\ st[c].log = <<"connect", "INSERT", "commit", "close">> \o PresenceCheck
                /\ st[c].fetched = table[Len(table)]
                /\ st[c].result = Returned(EntityOf(st[c].fetched))
                /\ st[c].result.obj # None

\* an add_one of a new id has returned, on a table that held a row
C7_Witness ==
    \E c \in callers :
       /\ st[c].op = "add_one"
       /\ ~HasRow(st[c].pre, UuidOf(st[c]))
       /\ st[c].pre # <<>>
       /\ st[c].state = "returned"

(* C8: update_one, when a row matches the entity's id, replaces every mapped
   column of that row but uuid by the entity's value, leaves its uuid, its
   deleted flag and all other rows unchanged, and returns the re-fetched
   row; when no row matches, the table is unchanged and the result is None. *)
C8_UpdateOneReplacesColumns ==
    \A c \in callers :
       st[c].op = "update_one" =>
          /\ st[c].state # "raised"
          /\ st[c].state = "returned" =>
                /\ Len(table) = Len(st[c].pre)
                /\ \A k \in 1..Len(table) :
                      IF st[c].pre[k].uuid = st[c].arg.entity_uuid
                      THEN /\ EntityOf(table[k]) = st[c].arg
                           /\ table[k].deleted = st[c].pre[k].deleted
                           /\ DOMAIN table[k] = DOMAIN st[c].pre[k]
                      ELSE table[k] = st[c].pre[k]
                /\ st[c].result =
                      IF HasRow(st[c].pre, st[c].arg.entity_uuid)
                      THEN Returned(EntityOf(RowOf(table, st[c].arg.entity_uuid)))
                      ELSE Returned(None)

\* an update_one has returned that changed the columns of a soft-deleted row
\* next to another row
C8_Witness ==
    \E c \in callers :
       /\ CallOnPresent(c, "update_one")
       /\ st[c].state = "returned"
       /\ Len(table) = 2
       /\ ~Live(RowOf(st[c].pre, st[c].arg.entity_uuid))
       /\ EntityOf(RowOf(st[c].pre, st[c].arg.entity_uuid)) # st[c].arg

----------------------------------------------------------------------------
\* the last call assigned value to the field: a value of good is stored as
\* given, a value of bad raises ValueError and leaves the User as it was
SetterOutcome(field, good, bad) ==
    last.op = field =>
       /\ last.value \in good => (~last.raised /\ user[field] = last.value)
       /\ last.value \in bad =>
             (last.raised /\ last.exc = "ValueError" /\ user = prevUser)

(* C9: an assignment to email, last_login_ip or user_type of a constructed
   User stores a valid value exactly as given (for user_type: an integer in
   1..3); an invalid value (for user_type: an integer below 1 or above 3)
   raises a validation error and leaves all five fields as they were. *)
C9_SettersValidateAtomically ==
    /\ SetterOutcome("email", GoodEmails, BadEmails)
    /\ SetterOutcome("last_login_ip", GoodIps, BadIps)
    /\ SetterOutcome("user_type", 1..3, TypeInputs \ (1..3))

\* an invalid email was assigned to a User and refused
C9_Witness ==
    /\ last.op = "email"
    /\ last.value \in BadEmails
    /\ last.raised
    /\ DOMAIN user = {"entity_uuid", "user_name", "email", "last_login_ip", "user_type"}

(* C10: for every valid User u, map_to_repo(u) has exactly the keys uuid,
   user_name, email, last_login_ip, user_type with the values of u's
   accessors, and map_from_repo(map_to_repo(u)) succeeds and yields a User
   with the id, name, email, address and type of u. *)
C10_MapperRoundTrip ==
    muser # NoUser =>
       /\ mpc \in {"to_repo", "done"} =>
             /\ DOMAIN record = RecordKeys
             /\ record.uuid = muser.entity_uuid
             /\ record.user_name = muser.user_name
             /\ record.email = muser.email
             /\ record.last_login_ip = muser.last_login_ip
             /\ record.user_type = muser.user_type
       /\ mpc = "done" =>
             /\ ~mapped.raised
             /\ mapped.obj = muser

\* a User was mapped to a record and back
C10_Witness ==
    /\ muser # NoUser
    /\ mpc = "done"
    /\ muser.entity_uuid # muser.user_name

(* C12: fetch_users_by_user_type(t) returns, as entities in scan order,
   exactly the rows whose user_type is t, soft-deleted rows included, and an
   empty list, without raising, when no row has that type. *)
C12_FetchUsersByUserType ==
    \A c \in callers :
       st[c].op = "fetch_users_by_user_type" =>
          /\ st[c].state # "raised"
          /\ st[c].state = "returned" =>
                LET OfType(row) == row.user_type = st[c].arg
                IN st[c].result = Returned(EntitiesOf(SelectSeq(st[c].pre, OfType)))

\* a fetch by type has returned from a table that holds a soft-deleted row
\* of that type and a row of another type
C12_Witness ==
    \E c \in callers :
       /\ st[c].op = "fetch_users_by_user_type"
       /\ st[c].state = "returned"
       /\ \E k \in 1..Len(st[c].pre) :
             st[c].pre[k].user_type = st[c].arg /\ ~Live(st[c].pre[k])
       /\ \E k \in 1..Len(st[c].pre) : st[c].pre[k].user_type # st[c].arg

----------------------------------------------------------------------------
Failures == {"connect_failed", "execute_failed"}
\* the connection or a statement of the call s has failed
Failed(s) == \E k \in 1..Len(s.log) : s.log[k] \in Failures
AllOps ==
    {"fetch_all", "fetch_one_by_uuid", "add_one", "update_one",
     "soft_delete_one_by_uuid", "delete_one_by_uuid", "fetch_users_by_user_type"}

\* a call in which the store failed has ended with a storage error, and
\* every exception of a call is a storage error
FailureIsRaised ==
    \A c \in callers :
       /\ Failed(st[c]) =>
             /\ st[c].op \in AllOps
             /\ st[c].state = "raised"
             /\ st[c].result.raised
             /\ st[c].result.exc \in StorageErrors
             /\ st[c].log[Len(st[c].log)] \in Failures
       /\ st[c].state = "raised" => st[c].result.exc \in StorageErrors
       /\ st[c].state = "returned" => ~st[c].result.raised

\* the step in which the store fails changes neither the table nor the
\* transaction of the connection, and the call takes no step after it
FailureChangesNothing ==
    \A c \in callers :
       /\ (Failed(st'[c]) /\ ~Failed(st[c])) =>
             /\ table' = table
             /\ st'[c].txn = st[c].txn
             /\ ~st'[c].txn.active
       /\ Failed(st[c]) => (st'[c] = st[c] \/ st'[c].log = <<>>)

(* C11: in each of the seven repository operations a failure to open the
   connection or to execute a statement ends the call with a storage error
   raised to the caller, never with a returned value or None, and the step
   that fails leaves the table unchanged. *)
C11_StorageErrorsPropagate ==
    /\ []FailureIsRaised
    /\ [][FailureChangesNothing]_vars

\* the read-back of an add_one has failed after the insert was committed
C11_Witness ==
    \E c \in callers :
       /\ st[c].op = "add_one"
       /\ st[c].state = "raised"
       /\ st[c].log = <<"connect", "INSERT", "commit", "close", "connect", "execute_failed">>
       /\ st[c].pre # <<>>
       /\ table # st[c].pre

----------------------------------------------------------------------------
RECURSIVE OpenConnections(_)
\* the connections that the events of log have opened and not closed
OpenConnections(log) ==
    IF log = <<>> THEN 0
    ELSE OpenConnections(SubSeq(log, 1, Len(log) - 1))
         + (IF log[Len(log)] = "connect" THEN 1
            ELSE IF log[Len(log)] = "close" THEN 0 - 1 ELSE 0)
Writes == {"INSERT", "UPDATE", "SOFT_DELETE", "DELETE"}
Ended(s) == s.state \in {"returned", "raised"}

(* C13: when a repository call has ended, returned or raised, every
   connection it opened has been closed; during a call at most one
   connection is open at any moment; and a connection that executed a write
   commits right before it is closed. *)
C13_ConnectionsAreClosed ==
    \A c \in callers :
       /\ Ended(st[c]) => OpenConnections(st[c].log) = 0
       /\ \A k \in 0..Len(st[c].log) :
             OpenConnections(SubSeq(st[c].log, 1, k)) \in {0, 1}
       /\ \A k \in 1..Len(st[c].log) :
             (st[c].log[k] = "close" /\ st[c].log[k - 2] \in Writes) =>
                st[c].log[k - 1] = "commit"

----------------------------------------------------------------------------
Unique(t) == \A j, k \in 1..Len(t) : t[j].uuid = t[k].uuid => j = k
UuidsOf(t) == [k \in 1..Len(t) |-> t[k].uuid]

(* C16: the table never holds two rows of one uuid. add_one of an entity
   whose id matches a row, soft-deleted or not, ends with a storage error and
   leaves the table as it was; add_one of the id that the caller's preceding
   delete_one_by_uuid has removed returns the added entity; update_one
   changes the uuid of no row. *)
C16_UuidsAreUnique ==
    /\ Unique(table)
    /\ \A c \in callers :
          /\ Unique(View(st[c]))
          /\ (st[c].op = "add_one" /\ HasRow(st[c].pre, UuidOf(st[c]))) =>
                /\ table = st[c].pre
                /\ ~st[c].txn.active
                /\ st[c].state # "returned"
                /\ st[c].state = "raised" =>
                      /\ st[c].result = Raised("IntegrityError", None)
                      /\ st[c].result.exc \in StorageErrors
          /\ ( /\ st[c].op = "add_one"
               /\ st[c].afterDelete = [uuid |-> UuidOf(st[c]), found |-> TRUE]
               /\ Ended(st[c]) ) =>
                /\ st[c].result = Returned(st[c].arg)
                /\ HasRow(table, UuidOf(st[c]))
          /\ st[c].op = "update_one" =>
                /\ UuidsOf(table) = UuidsOf(st[c].pre)
                /\ UuidsOf(View(st[c])) = UuidsOf(st[c].pre)

\* an add_one of the id of a soft-deleted row has raised
C16_Witness ==
    \E c \in callers :
       /\ CallOnPresent(c, "add_one")
       /\ ~Live(RowOf(st[c].pre, UuidOf(st[c])))
       /\ st[c].state = "raised"

\* an add_one of the id just removed by delete_one_by_uuid has returned
C16_AddedAgain ==
    \E c \in callers :
       /\ st[c].op = "add_one"
       /\ st[c].afterDelete = [uuid |-> UuidOf(st[c]), found |-> TRUE]
       /\ st[c].state = "returned"

----------------------------------------------------------------------------
Flagged(t) == {t[k].uuid : k \in {j \in 1..Len(t) : t[j].deleted = 1}}
Present(t) == {t[k].uuid : k \in 1..Len(t)}

\* a step resets no deleted flag: a flagged row is flagged or gone after it
FlagStays == (Flagged(table) \cap Present(table')) \subseteq Flagged(table')

\* fetch_all() returns no entity of a flagged row, and a soft delete of a
\* flagged row changes nothing and returns the entity
FlaggedStaysOut ==
    \A c \in callers :
       /\ (st[c].op = "fetch_all" /\ st[c].arg = FALSE /\ st[c].state = "returned") =>
             \A k \in 1..Len(st[c].result.obj) :
                st[c].result.obj[k].entity_uuid \notin Flagged(st[c].pre)
       /\ ( /\ CallOnPresent(c, "soft_delete_one_by_uuid")
            /\ st[c].arg \in Flagged(st[c].pre) ) =>
             /\ table = st[c].pre
             /\ st[c].state # "raised"
             /\ st[c].state = "returned" =>
                   st[c].result = Returned(EntityOf(RowOf(st[c].pre, st[c].arg)))
       /\ st[c].op \in AllOps \ {"delete_one_by_uuid"} =>
             Flagged(st[c].pre) \subseteq Flagged(table)

(* C17: no step of a repository operation resets a deleted flag to 0: a
   flagged row stays flagged until delete_one_by_uuid removes it, whatever
   update_one, soft_delete_one_by_uuid and fetch calls are made, so
   fetch_all() never returns it; a repeated soft_delete_one_by_uuid leaves
   the table as it was and returns the entity. *)
C17_SoftDeleteIsPermanent ==
    /\ [][FlagStays]_vars
    /\ []FlaggedStaysOut

\* a second soft delete of a row has returned after the row was updated
C17_Witness ==
    \E c \in callers :
       /\ CallOnPresent(c, "soft_delete_one_by_uuid")
       /\ st[c].arg \in Flagged(st[c].pre)
       /\ st[c].state = "returned"
       /\ RowOf(table, st[c].arg).user_type = 2
       /\ Len(table) = 2

----------------------------------------------------------------------------
\* the statement by which the operation op mutates
MutationOf(op) == IF op = "delete_one_by_uuid" THEN "DELETE" ELSE "SOFT_DELETE"

\* while the call s was between positions lo and hi, another caller
\* committed the statement instr on the id of s
MetCommit(s, instr, lo, hi) ==
    \E k \in 1..Len(s.during) :
       /\ s.during[k].instr = instr
       /\ s.during[k].uuid = UuidOf(s)
       /\ s.during[k].pc \in lo..hi

\* callers c and d run the same (soft) delete of the same id, which matched
\* a row, and the mutation of d was committed after the presence check of c
\* and before the mutation of c: both presence checks came before either
\* mutation
Raced(c, d) ==
    /\ c # d
    /\ st[c].op \in Deleting
    /\ st[d].op = st[c].op
    /\ st[d].arg = st[c].arg
    /\ HasRow(st[c].pre, st[c].arg)
    /\ MetCommit(st[c], MutationOf(st[c].op), 3, 8)

(* C14: two callers can run delete_one_by_uuid (or soft_delete_one_by_uuid)
   on the same existing id so that both presence checks precede either
   mutation; then neither call raises, both return the entity of the row as
   it was before, and the row is removed (or flagged) as by one call. *)
C14_BothDeletesReturnTheRow ==
    \A c, d \in callers :
       Raced(c, d) =>
          LET pre == st[c].pre
              id == st[c].arg
              snapshot == EntityOf(RowOf(pre, id))
          IN /\ st[d].pre = pre
             /\ st[c].fetched = RowOf(pre, id) /\ st[d].fetched = RowOf(pre, id)
             /\ st[d].value = snapshot
             /\ st[c].state # "raised" /\ st[d].state # "raised"
             /\ st[d].state = "returned" => st[d].result = Returned(snapshot)
             /\ st[c].state = "returned" =>
                   /\ st[c].result = Returned(snapshot)
                   /\ st[c].log = PresenceCheck \o
                         <<"connect", MutationOf(st[c].op), "commit", "close">>
                   /\ table = IF st[c].op = "delete_one_by_uuid"
                              THEN WithoutRow(pre, IndexOfRow(pre, id))
                              ELSE SoftDelete(pre, id)

\* both hard deletes of a live row have returned after such a race
C14_Witness ==
    \E c, d \in callers :
       /\ Raced(c, d)
       /\ st[c].op = "delete_one_by_uuid"
       /\ st[c].state = "returned" /\ st[d].state = "returned"
       /\ st[c].result.obj # None /\ st[d].result.obj # None
       /\ ~HasRow(table, st[c].arg)

(* C15: when another caller's delete_one_by_uuid of the same id is committed
   after the commit of an add_one or update_one and before the read-back of
   that call, the add_one or update_one does not raise and returns None; its
   own write had been committed: the delete found the row that the add_one
   inserted. *)
C15_ReadBackAfterDeleteIsNone ==
    \A c \in callers :
       (st[c].op \in {"add_one", "update_one"} /\ MetCommit(st[c], "DELETE", 4, 6)) =>
          /\ st[c].state # "raised"
          /\ IsPrefix(<<"connect", IF st[c].op = "add_one" THEN "INSERT" ELSE "UPDATE",
                        "commit">>, st[c].log)
          /\ st[c].op = "add_one" =>
                \E d \in callers \ {c} :
                   st[d].op = "delete_one_by_uuid" /\ st[d].value = st[c].arg
          /\ ~HasRow(table, UuidOf(st[c]))
          /\ st[c].state = "returned" =>
                /\ st[c].fetched = None
                /\ st[c].result = Returned(None)

\* an add_one has returned None after such a delete
C15_Witness ==
    \E c \in callers :
       /\ st[c].op = "add_one"
       /\ MetCommit(st[c], "DELETE", 4, 6)
       /\ st[c].state = "returned"
       /\ st[c].result = Returned(None)

\* an update_one of an existing row has returned None after such a delete
C15_WitnessUpdate ==
    \E c \in callers :
       /\ CallOnPresent(c, "update_one")
       /\ MetCommit(st[c], "DELETE", 4, 6)
       /\ st[c].state = "returned"
       /\ st[c].result = Returned(None)

====
